---- MODULE Spec2Model ----
(***************************************************************************)
(* Model of the rpc-shared-api crate: the wire types of src/types, the      *)
(* derived views of CommittedSubDag (flatten_transactions, len), the       *)
(* derived comparisons and hashing of the identity types, and the JSON     *)
(* encoding of the wire types.                                             *)
(*                                                                         *)
(* A Vec<T> is a TLA+ sequence, a struct is a record with the field names  *)
(* of the source, a byte is a natural number.                              *)
(***************************************************************************)
EXTENDS Integers, Sequences, FiniteSets, TLC

(***************************************************************************)
(* Bounds of the explored input space.                                     *)
(***************************************************************************)
\* most transactions in one generated block
MaxTxs == 2
\* most blocks in one generated sub-DAG
MaxBlocks == 2

(***************************************************************************)
(* src/types/primitives.rs                                                 *)
(***************************************************************************)
DIGEST_LENGTH == 32

\* [0u8; DIGEST_LENGTH], the Default of a digest array
ZeroDigest == [i \in 1..DIGEST_LENGTH |-> 0]

\* BlockRef::default()
BlockRefDefault == [leader_address |-> "", digest |-> ZeroDigest, round |-> 0]

\* CommitRef::default()
CommitRefDefault == [digest |-> ZeroDigest, round |-> 0]

\* PartialEq of [u8; DIGEST_LENGTH]: element by element
ArrayEq(a, b) == \A i \in 1..DIGEST_LENGTH : a[i] = b[i]

\* derived PartialEq of BlockRef: every field, in declaration order
BlockRefEq(a, b) ==
    /\ a.leader_address = b.leader_address
    /\ ArrayEq(a.digest, b.digest)
    /\ a.round = b.round

\* an equality of commit references that looks at the digest only
CommitRefEqIgnoresRound(a, b) == ArrayEq(a.digest, b.digest)

\* derived PartialEq of CommitRef: every field, in declaration order
CommitRefEq(a, b) ==
    /\ ArrayEq(a.digest, b.digest)
    /\ a.round = b.round

\* Transaction::new(data)
TransactionNew(bytes) == [inner |-> bytes]

\* Transaction::data(&self)
data(tx) == tx.inner

(***************************************************************************)
(* src/types/block.rs                                                      *)
(***************************************************************************)
\* a constructor that loses the first transaction of the body
SignedBlockNewDropsFirst(block) ==
    [inner |-> IF block = <<>> THEN <<>> ELSE Tail(block), signature |-> <<>>]

\* SignedBlock::new(block): the body with an empty signature
SignedBlockNew(block) == [inner |-> block, signature |-> <<>>]

\* SignedBlock::transactions(&self)
transactions(sb) == sb.inner

\* u8::MIN and u8::MAX
U8_MIN == 0
U8_MAX == 255

\* BlockDigest::MIN and BlockDigest::MAX
BlockDigestMIN == [i \in 1..DIGEST_LENGTH |-> U8_MIN]
BlockDigestMAX == [i \in 1..DIGEST_LENGTH |-> U8_MAX]

RECURSIVE ArrayCmp(_, _, _)
\* Ord of [u8; DIGEST_LENGTH] from index i on: the first unequal pair of
\* bytes decides, equal arrays are Equal
ArrayCmp(a, b, i) ==
    IF i > DIGEST_LENGTH THEN "Equal"
    ELSE IF a[i] < b[i] THEN "Less"
    ELSE IF a[i] > b[i] THEN "Greater"
    ELSE ArrayCmp(a, b, i + 1)

RECURSIVE PrefixCmp(_, _, _)
\* a comparison that stops after the bytes the hash looks at
PrefixCmp(a, b, i) ==
    IF i > 8 THEN "Equal"
    ELSE IF a[i] < b[i] THEN "Less"
    ELSE IF a[i] > b[i] THEN "Greater"
    ELSE PrefixCmp(a, b, i + 1)

BlockDigestCmpPrefix(a, b) == PrefixCmp(a, b, 1)

\* derived Ord of BlockDigest: the Ord of its only field
BlockDigestCmp(a, b) == ArrayCmp(a, b, 1)

\* derived PartialEq of BlockDigest: the PartialEq of its only field
BlockDigestEq(a, b) == ArrayEq(a, b)

\* Hasher::write(bytes): the hasher's state is the bytes written to it
HasherWrite(state, bytes) == state \o bytes

\* DefaultHasher::new()
HasherNew == <<>>

\* a hash that feeds the whole digest to the hasher
BlockDigestHashAll(self, state) == HasherWrite(state, self)

\* impl Hash for BlockDigest: state.write(&self.0[..8])
BlockDigestHash(self, state) == HasherWrite(state, SubSeq(self, 1, 8))

(***************************************************************************)
(* Test fixtures of the crate, used to build input values.                 *)
(***************************************************************************)
\* let mut digest = [0u8; 32]; digest[0] = round as u8;
TestDigest(round) == [i \in 1..DIGEST_LENGTH |-> IF i = 1 THEN round % 256 ELSE 0]

\* create_test_block_ref(round), with the empty leader address
create_test_block_ref(round) ==
    [leader_address |-> "", digest |-> TestDigest(round), round |-> round]

\* create_test_commit_ref(round)
create_test_commit_ref(round) == [digest |-> TestDigest(round), round |-> round]

\* create_test_verified_block(transactions): digest[0] = 1
create_test_verified_block(txs) ==
    [block |-> SignedBlockNew(txs), digest |-> TestDigest(1)]

(***************************************************************************)
(* src/types/subdag.rs                                                     *)
(***************************************************************************)
\* CommittedSubDag::default()
CommittedSubDagDefault ==
    [leader |-> BlockRefDefault,
     blocks |-> <<>>,
     timestamp_ms |-> 0,
     commit_ref |-> CommitRefDefault,
     reputation_scores_desc |-> <<>>]

\* one block's payloads taken back to front
BlockPayloadsReversed(vb) ==
    [t \in 1..Len(transactions(vb.block)) |->
        data(transactions(vb.block)[Len(transactions(vb.block)) + 1 - t])]

\* the inner iterator of flatten_transactions: one block's payloads, each
\* copied with to_vec(), in the block's stored order
BlockPayloads(vb) ==
    [t \in 1..Len(transactions(vb.block)) |-> data(transactions(vb.block)[t])]

RECURSIVE FlatMapBlocks(_)
\* the flat_map(..).collect() of flatten_transactions over a block slice
FlatMapBlocks(blocks) ==
    IF blocks = <<>>
    THEN <<>>
    ELSE BlockPayloads(Head(blocks)) \o FlatMapBlocks(Tail(blocks))

\* CommittedSubDag::flatten_transactions(&self)
flatten_transactions(self) == FlatMapBlocks(self.blocks)

RECURSIVE SumTxCounts(_)
\* the map(..).sum() of len over a block slice
SumTxCounts(blocks) ==
    IF blocks = <<>>
    THEN 0
    ELSE Len(transactions(Head(blocks).block)) + SumTxCounts(Tail(blocks))

\* a count of the blocks instead of their transactions
lenCountsBlocks(self) == Len(self.blocks)

\* CommittedSubDag::len(&self)
len(self) == SumTxCounts(self.blocks)

(***************************************************************************)
(* JSON text, as serde_json::to_string writes it and serde_json::from_str  *)
(* reads it.  A text is a sequence of tokens: the punctuation marks, a     *)
(* number, or a string.                                                    *)
(***************************************************************************)
Tok(t, n, s) == [t |-> t, n |-> n, s |-> s]
Punct(c) == Tok(c, 0, "")
Num(n) == Tok("num", n, "")
Str(s) == Tok("str", 0, s)

RECURSIVE JoinComma(_)
\* the texts of a sequence, separated by commas
JoinComma(texts) ==
    IF texts = <<>> THEN <<>>
    ELSE IF Len(texts) = 1 THEN texts[1]
    ELSE texts[1] \o <<Punct(",")>> \o JoinComma(Tail(texts))

\* serialize_seq / serialize_tuple: [e1,e2,...]
WriteArray(texts) == <<Punct("[")>> \o JoinComma(texts) \o <<Punct("]")>>

\* serialize_struct: {"name1":v1,"name2":v2,...}, fields in declaration order
WriteObject(members) ==
    <<Punct("{")>>
    \o JoinComma([m \in DOMAIN members |->
                    <<Str(members[m][1]), Punct(":")>> \o members[m][2]])
    \o <<Punct("}")>>

\* Vec<u8> and [u8; DIGEST_LENGTH]: an array of numbers
WriteBytes(bytes) == WriteArray([i \in DOMAIN bytes |-> <<Num(bytes[i])>>])

\* derive(Serialize) for Transaction
SerTransaction(tx) == WriteObject(<< <<"inner", WriteBytes(tx.inner)>> >>)

\* a SignedBlock writer that leaves the signature out
SerSignedBlockSkipsSignature(sb) ==
    WriteObject(<<
        <<"inner", WriteArray([t \in DOMAIN sb.inner |-> SerTransaction(sb.inner[t])])>>,
        <<"signature", WriteBytes(<<>>)>> >>)

\* derive(Serialize) for SignedBlock
SerSignedBlock(sb) ==
    WriteObject(<<
        <<"inner", WriteArray([t \in DOMAIN sb.inner |-> SerTransaction(sb.inner[t])])>>,
        <<"signature", WriteBytes(sb.signature)>> >>)

\* derive(Serialize) for BlockDigest, a newtype struct: the text of its field
SerBlockDigest(d) == WriteBytes(d)

\* derive(Serialize) for VerifiedBlock
SerVerifiedBlock(vb) ==
    WriteObject(<<
        <<"block", SerSignedBlock(vb.block)>>,
        <<"digest", SerBlockDigest(vb.digest)>> >>)

\* derive(Serialize) for BlockRef
SerBlockRef(r) ==
    WriteObject(<<
        <<"leader_address", <<Str(r.leader_address)>> >>,
        <<"digest", WriteBytes(r.digest)>>,
        <<"round", <<Num(r.round)>> >> >>)

\* derive(Serialize) for CommitRef
SerCommitRef(r) ==
    WriteObject(<<
        <<"digest", WriteBytes(r.digest)>>,
        <<"round", <<Num(r.round)>> >> >>)

\* (AuthorityIndex, u64): a tuple of two numbers
SerScore(p) == WriteArray(<< <<Num(p[1])>>, <<Num(p[2])>> >>)

\* derive(Serialize) for CommittedSubDag
SerCommittedSubDag(sd) ==
    WriteObject(<<
        <<"leader", SerBlockRef(sd.leader)>>,
        <<"blocks", WriteArray([b \in DOMAIN sd.blocks |-> SerVerifiedBlock(sd.blocks[b])])>>,
        <<"timestamp_ms", <<Num(sd.timestamp_ms)>> >>,
        <<"commit_ref", SerCommitRef(sd.commit_ref)>>,
        <<"reputation_scores_desc",
          WriteArray([k \in DOMAIN sd.reputation_scores_desc |->
                        SerScore(sd.reputation_scores_desc[k])])>> >>)

\* serde_json::to_string(&value) for a value of type ty
to_string(ty, value) ==
    CASE ty = "BlockDigest" -> SerBlockDigest(value)
      [] ty = "BlockRef" -> SerBlockRef(value)
      [] ty = "CommitRef" -> SerCommitRef(value)
      [] ty = "Transaction" -> SerTransaction(value)
      [] ty = "SignedBlock" -> SerSignedBlock(value)
      [] ty = "VerifiedBlock" -> SerVerifiedBlock(value)
      [] ty = "CommittedSubDag" -> SerCommittedSubDag(value)

(***************************************************************************)
(* Reading: the text is parsed into a JSON value (a number, a string, an   *)
(* array of values, an object of named values), from which the derived     *)
(* Deserialize of each type builds its value or fails.                     *)
(***************************************************************************)
Node(k, n, s, items) == [k |-> k, n |-> n, s |-> s, items |-> items]
Parsed(ok, val, next) == [ok |-> ok, val |-> val, next |-> next]
ParseFail == Parsed(FALSE, Node("none", 0, "", <<>>), 0)

\* the token at position i, or an end mark past the end of the text
TokAt(toks, i) == IF i \in 1..Len(toks) THEN toks[i] ELSE Punct("eof")

RECURSIVE ParseValue(_, _), ParseElems(_, _, _), ParseMembers(_, _, _)
\* one JSON value starting at position i
ParseValue(toks, i) ==
    LET tok == TokAt(toks, i) IN
    CASE tok.t = "num" -> Parsed(TRUE, Node("num", tok.n, "", <<>>), i + 1)
      [] tok.t = "str" -> Parsed(TRUE, Node("str", 0, tok.s, <<>>), i + 1)
      [] tok.t = "[" ->
            IF TokAt(toks, i + 1).t = "]"
            THEN Parsed(TRUE, Node("arr", 0, "", <<>>), i + 2)
            ELSE ParseElems(toks, i + 1, <<>>)
      [] tok.t = "{" ->
            IF TokAt(toks, i + 1).t = "}"
            THEN Parsed(TRUE, Node("obj", 0, "", <<>>), i + 2)
            ELSE ParseMembers(toks, i + 1, <<>>)
      [] OTHER -> ParseFail

\* the elements of an array from position i on, after those in acc
ParseElems(toks, i, acc) ==
    LET r == ParseValue(toks, i) IN
    IF ~r.ok THEN ParseFail
    ELSE CASE TokAt(toks, r.next).t = "," ->
                ParseElems(toks, r.next + 1, Append(acc, r.val))
           [] TokAt(toks, r.next).t = "]" ->
                Parsed(TRUE, Node("arr", 0, "", Append(acc, r.val)), r.next + 1)
           [] OTHER -> ParseFail

\* the members of an object from position i on, after those in acc
ParseMembers(toks, i, acc) ==
    IF TokAt(toks, i).t # "str" \/ TokAt(toks, i + 1).t # ":" THEN ParseFail
    ELSE LET r == ParseValue(toks, i + 2)
             m == <<TokAt(toks, i).s, r.val>>
         IN
         IF ~r.ok THEN ParseFail
         ELSE CASE TokAt(toks, r.next).t = "," ->
                     ParseMembers(toks, r.next + 1, Append(acc, m))
                [] TokAt(toks, r.next).t = "}" ->
                     Parsed(TRUE, Node("obj", 0, "", Append(acc, m)), r.next + 1)
                [] OTHER -> ParseFail

\* a value read from a JSON value: ok with the value, or an error
Ok(v) == [ok |-> TRUE, val |-> v]
Err == [ok |-> FALSE, val |-> <<>>]

\* u8: a number within the type's range
DeUnsigned(node, max) ==
    IF node.k = "num" /\ node.n >= 0 /\ node.n <= max THEN Ok(node.n) ELSE Err

\* the elements of an array, none for a value that is not an array
ElemsOf(node) == IF node.k = "arr" THEN node.items ELSE <<>>

\* Vec<T>, given the reading rs of each element as T: an array whose
\* elements all read as T, in the order of the text
DeSeq(node, rs) ==
    IF node.k # "arr" THEN Err
    ELSE IF \A i \in DOMAIN rs : rs[i].ok
         THEN Ok([i \in DOMAIN rs |-> rs[i].val])
         ELSE Err

DeU8(node) == DeUnsigned(node, U8_MAX)

\* Vec<u8>
DeBytes(node) ==
    DeSeq(node, [i \in DOMAIN ElemsOf(node) |-> DeU8(ElemsOf(node)[i])])

\* [u8; DIGEST_LENGTH]: exactly DIGEST_LENGTH bytes
DeDigestArray(node) ==
    LET r == DeBytes(node) IN
    IF r.ok /\ Len(r.val) = DIGEST_LENGTH THEN r ELSE Err

\* the positions of the members of an object that carry the field name
FieldAt(node, name) == {m \in DOMAIN node.items : node.items[m][1] = name}

\* a struct field: present exactly once (a missing or a duplicate field is
\* an error), members of other names are ignored
HasField(node, name) == node.k = "obj" /\ Cardinality(FieldAt(node, name)) = 1

Field(node, name) == node.items[CHOOSE m \in FieldAt(node, name) : TRUE][2]

\* derive(Deserialize) for Transaction
DeTransaction(node) ==
    IF ~HasField(node, "inner") THEN Err
    ELSE LET inner == DeBytes(Field(node, "inner")) IN
         IF inner.ok THEN Ok([inner |-> inner.val]) ELSE Err

\* derive(Deserialize) for SignedBlock
DeSignedBlock(node) ==
    IF ~(HasField(node, "inner") /\ HasField(node, "signature")) THEN Err
    ELSE LET txs == ElemsOf(Field(node, "inner"))
             inner == DeSeq(Field(node, "inner"),
                            [t \in DOMAIN txs |-> DeTransaction(txs[t])])
             signature == DeBytes(Field(node, "signature"))
         IN
         IF inner.ok /\ signature.ok
         THEN Ok([inner |-> inner.val, signature |-> signature.val])
         ELSE Err

\* derive(Deserialize) for BlockDigest
DeBlockDigest(node) == DeDigestArray(node)

\* derive(Deserialize) for VerifiedBlock
DeVerifiedBlock(node) ==
    IF ~(HasField(node, "block") /\ HasField(node, "digest")) THEN Err
    ELSE LET block == DeSignedBlock(Field(node, "block"))
             digest == DeBlockDigest(Field(node, "digest"))
         IN
         IF block.ok /\ digest.ok
         THEN Ok([block |-> block.val, digest |-> digest.val])
         ELSE Err

\* u32 / u64 / usize: a number that is not negative (the values of the model
\* stay far below the upper end of these types)
DeNumber(node) == IF node.k = "num" /\ node.n >= 0 THEN Ok(node.n) ELSE Err

\* derive(Deserialize) for BlockRef
DeBlockRef(node) ==
    IF ~(HasField(node, "leader_address") /\ HasField(node, "digest")
            /\ HasField(node, "round")) THEN Err
    ELSE LET digest == DeDigestArray(Field(node, "digest"))
             round == DeNumber(Field(node, "round"))
         IN
         IF Field(node, "leader_address").k = "str" /\ digest.ok /\ round.ok
         THEN Ok([leader_address |-> Field(node, "leader_address").s,
                  digest |-> digest.val, round |-> round.val])
         ELSE Err

\* derive(Deserialize) for CommitRef
DeCommitRef(node) ==
    IF ~(HasField(node, "digest") /\ HasField(node, "round")) THEN Err
    ELSE LET digest == DeDigestArray(Field(node, "digest"))
             round == DeNumber(Field(node, "round"))
         IN
         IF digest.ok /\ round.ok
         THEN Ok([digest |-> digest.val, round |-> round.val])
         ELSE Err

\* (AuthorityIndex, u64): an array of exactly two numbers
DeScore(node) ==
    IF node.k # "arr" \/ Len(node.items) # 2 THEN Err
    ELSE LET a == DeNumber(node.items[1])
             sc == DeNumber(node.items[2])
         IN
         IF a.ok /\ sc.ok THEN Ok(<<a.val, sc.val>>) ELSE Err

\* derive(Deserialize) for CommittedSubDag
DeCommittedSubDag(node) ==
    IF ~(HasField(node, "leader") /\ HasField(node, "blocks")
            /\ HasField(node, "timestamp_ms") /\ HasField(node, "commit_ref")
            /\ HasField(node, "reputation_scores_desc")) THEN Err
    ELSE LET leader == DeBlockRef(Field(node, "leader"))
             vbs == ElemsOf(Field(node, "blocks"))
             blocks == DeSeq(Field(node, "blocks"),
                             [b \in DOMAIN vbs |-> DeVerifiedBlock(vbs[b])])
             timestamp_ms == DeNumber(Field(node, "timestamp_ms"))
             commit_ref == DeCommitRef(Field(node, "commit_ref"))
             pairs == ElemsOf(Field(node, "reputation_scores_desc"))
             scores == DeSeq(Field(node, "reputation_scores_desc"),
                             [k \in DOMAIN pairs |-> DeScore(pairs[k])])
         IN
         IF leader.ok /\ blocks.ok /\ timestamp_ms.ok /\ commit_ref.ok /\ scores.ok
         THEN Ok([leader |-> leader.val,
                  blocks |-> blocks.val,
                  timestamp_ms |-> timestamp_ms.val,
                  commit_ref |-> commit_ref.val,
                  reputation_scores_desc |-> scores.val])
         ELSE Err

\* serde_json::from_str::<ty>(text): the whole text is one value of the type
from_str(ty, toks) ==
    LET r == ParseValue(toks, 1) IN
    IF ~r.ok \/ r.next # Len(toks) + 1 THEN Err
    ELSE CASE ty = "BlockDigest" -> DeBlockDigest(r.val)
           [] ty = "BlockRef" -> DeBlockRef(r.val)
           [] ty = "CommitRef" -> DeCommitRef(r.val)
           [] ty = "Transaction" -> DeTransaction(r.val)
           [] ty = "SignedBlock" -> DeSignedBlock(r.val)
           [] ty = "VerifiedBlock" -> DeVerifiedBlock(r.val)
           [] ty = "CommittedSubDag" -> DeCommittedSubDag(r.val)

(***************************************************************************)
(* Input values.                                                           *)
(***************************************************************************)
SeqsUpTo(S, n) == UNION {[1..k -> S] : k \in 0..n}

\* the generated payloads: the empty one and two that differ in length and
\* in every byte (a payload is opaque to the operations on blocks)
Payloads == {<<>>, <<1>>, <<2, 1>>}

Transactions == {TransactionNew(p) : p \in Payloads}

Bodies == SeqsUpTo(Transactions, MaxTxs)

VerifiedBlocks == {create_test_verified_block(b) : b \in Bodies}

\* the leader / timestamp / commit / reputation fields of the crate's tests
\* next to those of CommittedSubDag::default()
Envelopes ==
    {CommittedSubDagDefault,
     [leader |-> create_test_block_ref(1),
      blocks |-> <<>>,
      timestamp_ms |-> 1000,
      commit_ref |-> create_test_commit_ref(1),
      reputation_scores_desc |-> <<<<0, 100>>, <<1, 90>>>>]}

\* the sub-DAG of the delivery scenario: leader round 1, one block holding
\* [1,2,3] and [4,5,6], timestamp 1000, commit round 1, no reputation scores
ScenarioSubDag ==
    [leader |-> create_test_block_ref(1),
     blocks |-> <<create_test_verified_block(
                    <<TransactionNew(<<1, 2, 3>>), TransactionNew(<<4, 5, 6>>)>>)>>,
     timestamp_ms |-> 1000,
     commit_ref |-> create_test_commit_ref(1),
     reputation_scores_desc |-> <<>>]

CommittedSubDags ==
    {[e EXCEPT !.blocks = bs] :
        e \in Envelopes, bs \in SeqsUpTo(VerifiedBlocks, MaxBlocks)}
    \cup {ScenarioSubDag}

(***************************************************************************)
(* State: one CommittedSubDag value and the results of the calls made on   *)
(* it so far; for the operations on the other types, the values they are   *)
(* called with and the values they returned.                               *)
(***************************************************************************)
VARIABLES
    subdag,      \* the CommittedSubDag value the calls are made on
    flattened,   \* result of the last flatten_transactions() call
    length,      \* result of the last len() call
    called,      \* the methods called so far
    args,        \* the values the operations on the other types are called with
    rets         \* the values those operations returned

vars == <<subdag, flattened, length, called, args, rets>>

\* no operand and no result: the value of args and rets where they are unused
NoValues == <<>>

Init ==
    /\ subdag \in CommittedSubDags
    /\ flattened = <<>>
    /\ length = 0
    /\ called = {}
    /\ args = NoValues
    /\ rets = NoValues

\* let flattened = subdag.flatten_transactions();
FlattenTransactions ==
    /\ flattened' = flatten_transactions(subdag)
    /\ called' = called \cup {"flatten_transactions"}
    /\ UNCHANGED <<subdag, length, args, rets>>

\* let length = subdag.len();
CallLen ==
    /\ length' = len(subdag)
    /\ called' = called \cup {"len"}
    /\ UNCHANGED <<subdag, flattened, args, rets>>

Next ==
    \/ FlattenTransactions
    \/ CallLen

Spec == Init /\ [][Next]_vars

(***************************************************************************)
(* Properties.                                                             *)
(***************************************************************************)
BothCalled == {"flatten_transactions", "len"} \subseteq called

\* C1: for every CommittedSubDag value (any number of blocks, zero included,
\* any number of transactions per block, zero included), the result of len()
\* equals the number of elements of the result of flatten_transactions().
C1_LenEqualsFlattenLength ==
    BothCalled => length = Len(flattened)

\* both methods were called on a sub-DAG of two blocks holding three
\* transactions in all
C1_Witness ==
    /\ BothCalled
    /\ Len(subdag.blocks) = 2
    /\ length = 3
    /\ Len(flattened) = 3

RECURSIVE TxsBefore(_, _)
\* number of transactions stored in the blocks before position b
TxsBefore(blocks, b) ==
    IF b <= 1
    THEN 0
    ELSE TxsBefore(blocks, b - 1) + Len(blocks[b - 1].block.inner)

\* C2: flatten_transactions() is exactly the concatenation of the blocks'
\* payloads, blocks in the order of the blocks sequence and transactions in
\* their stored order: the payload of transaction t of block b stands at
\* position (transactions before block b) + t, unaltered, and the result
\* holds nothing else.
C2_FlattenIsConcatenation ==
    "flatten_transactions" \in called =>
        /\ Len(flattened) = TxsBefore(subdag.blocks, Len(subdag.blocks) + 1)
        /\ \A b \in 1..Len(subdag.blocks) :
              \A t \in 1..Len(subdag.blocks[b].block.inner) :
                  flattened[TxsBefore(subdag.blocks, b) + t]
                      = subdag.blocks[b].block.inner[t].inner

\* the delivery scenario: one block holding [1,2,3] and [4,5,6] flattens to
\* [[1,2,3],[4,5,6]] and has len() == 2
C2_Witness ==
    /\ BothCalled
    /\ subdag = ScenarioSubDag
    /\ flattened = <<<<1, 2, 3>>, <<4, 5, 6>>>>
    /\ length = 2

(***************************************************************************)
(* SignedBlock::new and SignedBlock::transactions on a block body.         *)
(***************************************************************************)
\* the body of the delivery scenario: [1,2,3] and [4,5,6]
ScenarioBody == <<TransactionNew(<<1, 2, 3>>), TransactionNew(<<4, 5, 6>>)>>

\* the generated payloads, those of the crate's tests and one with the
\* extreme byte values
BlockTransactions ==
    Transactions \cup {TransactionNew(<<1, 2, 3>>), TransactionNew(<<4, 5, 6>>),
                       TransactionNew(<<U8_MIN, U8_MAX>>)}

BlockBodies == SeqsUpTo(BlockTransactions, MaxTxs)

\* the sub-DAG variables of a specification that makes no call on a sub-DAG
SubDagIdle ==
    /\ subdag = CommittedSubDagDefault
    /\ flattened = <<>>
    /\ length = 0

InitBlock ==
    /\ SubDagIdle
    /\ called = {}
    /\ args \in [body : BlockBodies]
    /\ rets = [block |-> SignedBlockNew(<<>>), view |-> <<>>]

\* let block = SignedBlock::new(transactions.clone());
CallSignedBlockNew ==
    /\ "SignedBlock::new" \notin called
    /\ rets' = [rets EXCEPT !.block = SignedBlockNew(args.body)]
    /\ called' = called \cup {"SignedBlock::new"}
    /\ UNCHANGED <<subdag, flattened, length, args>>

\* block.transactions()
CallTransactions ==
    /\ "SignedBlock::new" \in called
    /\ rets' = [rets EXCEPT !.view = transactions(rets.block)]
    /\ called' = called \cup {"transactions"}
    /\ UNCHANGED <<subdag, flattened, length, args>>

NextBlock ==
    \/ CallSignedBlockNew
    \/ CallTransactions

SpecBlock == InitBlock /\ [][NextBlock]_vars

\* C16: SignedBlock::new(body) yields a block whose transactions() view is
\* the body itself (same number of transactions, same order, the same bytes
\* in each payload, the empty body included) and whose signature is empty;
\* it has no failing outcome.
C16_NewKeepsBodyEmptySignature ==
    /\ "SignedBlock::new" \in called =>
          /\ rets.block.signature = <<>>
          /\ Len(rets.block.inner) = Len(args.body)
          /\ \A t \in 1..Len(args.body) :
                rets.block.inner[t].inner = args.body[t].inner
    /\ "transactions" \in called =>
          /\ Len(rets.view) = Len(args.body)
          /\ \A t \in 1..Len(args.body) :
                rets.view[t].inner = args.body[t].inner

\* test_signed_block_new: the view of a block built from [1,2,3] and [4,5,6]
C16_Witness ==
    /\ "transactions" \in called
    /\ args.body = ScenarioBody
    /\ rets.view = ScenarioBody
    /\ rets.block.signature = <<>>

(***************************************************************************)
(* Equality of BlockRef and of CommitRef values.                           *)
(***************************************************************************)
\* a digest that differs from the all-zero digest in its last byte only
LastByteDigest == [i \in 1..DIGEST_LENGTH |-> IF i = DIGEST_LENGTH THEN 1 ELSE 0]

RefDigests == {ZeroDigest, TestDigest(1), TestDigest(2), LastByteDigest}

BlockRefs ==
    [leader_address : {"", "0xaa", "0xbb"}, digest : RefDigests, round : {0, 10, 11}]

CommitRefs == [digest : RefDigests, round : {0, 20, 21}]

InitRef ==
    /\ SubDagIdle
    /\ called = {}
    /\ args \in [ty : {"BlockRef"}, a : BlockRefs, b : BlockRefs]
               \cup [ty : {"CommitRef"}, a : CommitRefs, b : CommitRefs]
    /\ rets = [eq |-> FALSE]

\* block_ref1 == block_ref2
CallBlockRefEq ==
    /\ args.ty = "BlockRef"
    /\ "eq" \notin called
    /\ rets' = [eq |-> BlockRefEq(args.a, args.b)]
    /\ called' = called \cup {"eq"}
    /\ UNCHANGED <<subdag, flattened, length, args>>

\* commit_ref1 == commit_ref2
CallCommitRefEq ==
    /\ args.ty = "CommitRef"
    /\ "eq" \notin called
    /\ rets' = [eq |-> CommitRefEq(args.a, args.b)]
    /\ called' = called \cup {"eq"}
    /\ UNCHANGED <<subdag, flattened, length, args>>

NextRef ==
    \/ CallBlockRefEq
    \/ CallCommitRefEq

SpecRef == InitRef /\ [][NextRef]_vars

\* C17: two BlockRef values compare equal exactly when leader_address, digest
\* and round are all equal; two CommitRef values compare equal exactly when
\* digest and round are both equal.
C17_RefEqualityIsStructural ==
    "eq" \in called =>
        /\ args.ty = "BlockRef" =>
              (rets.eq <=> /\ args.a.leader_address = args.b.leader_address
                           /\ args.a.digest = args.b.digest
                           /\ args.a.round = args.b.round)
        /\ args.ty = "CommitRef" =>
              (rets.eq <=> /\ args.a.digest = args.b.digest
                           /\ args.a.round = args.b.round)

\* test_commit_ref_equality: the same digest (digest[0] = 2) with rounds 20
\* and 21 compares unequal
C17_Witness ==
    /\ "eq" \in called
    /\ args.ty = "CommitRef"
    /\ args.a = [digest |-> TestDigest(2), round |-> 20]
    /\ args.b = [digest |-> TestDigest(2), round |-> 21]
    /\ rets.eq = FALSE

(***************************************************************************)
(* Ordering, equality and hashing of BlockDigest values.                   *)
(***************************************************************************)
\* the byte positions at which the generated digests vary: the first byte,
\* the last byte the hash reads, the first it does not read, the last byte
ProbePositions == {1, 8, 9, DIGEST_LENGTH}

ProbeBytes == {U8_MIN, 1, U8_MAX}

DigestWith(f) == [i \in 1..DIGEST_LENGTH |-> IF i \in DOMAIN f THEN f[i] ELSE 0]

Digests == {DigestWith(f) : f \in [ProbePositions -> ProbeBytes]} \cup {BlockDigestMAX}

\* the digests that vary in the first and the last byte only
EndDigests == {DigestWith(f) : f \in [{1, DIGEST_LENGTH} -> ProbeBytes]} \cup {BlockDigestMAX}

InitDigest ==
    /\ SubDagIdle
    /\ called = {}
    /\ args \in [d1 : Digests, d2 : Digests, d3 : EndDigests]
    /\ rets = [cmp12 |-> "Equal", cmp21 |-> "Equal", cmp23 |-> "Equal",
               cmp13 |-> "Equal", min1 |-> "Equal", max1 |-> "Equal",
               eq12 |-> FALSE, h1 |-> HasherNew, h2 |-> HasherNew]

\* bd1.cmp(&bd2) for the pairs of the three digests, and against MIN and MAX
CallCmp ==
    /\ "cmp" \notin called
    /\ rets' = [rets EXCEPT
                  !.cmp12 = BlockDigestCmp(args.d1, args.d2),
                  !.cmp21 = BlockDigestCmp(args.d2, args.d1),
                  !.cmp23 = BlockDigestCmp(args.d2, args.d3),
                  !.cmp13 = BlockDigestCmp(args.d1, args.d3),
                  !.min1 = BlockDigestCmp(BlockDigestMIN, args.d1),
                  !.max1 = BlockDigestCmp(args.d1, BlockDigestMAX)]
    /\ called' = called \cup {"cmp"}
    /\ UNCHANGED <<subdag, flattened, length, args>>

\* bd1 == bd2
CallDigestEq ==
    /\ "eq" \notin called
    /\ rets' = [rets EXCEPT !.eq12 = BlockDigestEq(args.d1, args.d2)]
    /\ called' = called \cup {"eq"}
    /\ UNCHANGED <<subdag, flattened, length, args>>

\* bd1.hash(&mut hasher1); bd2.hash(&mut hasher2);
CallHash ==
    /\ "hash" \notin called
    /\ rets' = [rets EXCEPT !.h1 = BlockDigestHash(args.d1, HasherNew),
                             !.h2 = BlockDigestHash(args.d2, HasherNew)]
    /\ called' = called \cup {"hash"}
    /\ UNCHANGED <<subdag, flattened, length, args>>

NextDigest ==
    \/ CallCmp
    \/ CallDigestEq
    \/ CallHash

SpecDigest == InitDigest /\ [][NextDigest]_vars

\* a is before b in the byte-wise lexicographic order: at the first position
\* where they differ, a has the smaller byte
LexLess(a, b) ==
    \E i \in 1..DIGEST_LENGTH :
        /\ a[i] < b[i]
        /\ \A j \in 1..(i - 1) : a[j] = b[j]

\* C14: the ordering of digests coincides with the byte-wise lexicographic
\* comparison of the 32-byte arrays, is a total order (every pair is
\* comparable, the two directions agree, it is transitive), and every digest
\* d satisfies MIN <= d <= MAX.
C14_DigestOrderLexicographic ==
    "cmp" \in called =>
        /\ rets.cmp12 = "Less" <=> LexLess(args.d1, args.d2)
        /\ rets.cmp12 = "Greater" <=> LexLess(args.d2, args.d1)
        /\ rets.cmp12 = "Equal" <=> args.d1 = args.d2
        /\ rets.cmp12 = "Less" <=> rets.cmp21 = "Greater"
        /\ rets.cmp12 = "Equal" <=> rets.cmp21 = "Equal"
        /\ (rets.cmp12 # "Greater" /\ rets.cmp23 # "Greater") => rets.cmp13 # "Greater"
        /\ rets.min1 # "Greater"
        /\ rets.max1 # "Greater"

\* two digests that agree on the first 8 bytes and differ in the last byte
\* are ordered by that last byte, and lie strictly between MIN and MAX
C14_Witness ==
    /\ "cmp" \in called
    /\ \A i \in 1..(DIGEST_LENGTH - 1) : args.d1[i] = args.d2[i]
    /\ args.d1[1] = 1
    /\ args.d1[DIGEST_LENGTH] = 1
    /\ args.d2[DIGEST_LENGTH] = 255
    /\ rets.cmp12 = "Less"
    /\ rets.min1 = "Less"
    /\ rets.max1 = "Less"

AgreeOnFirst8(a, b) == \A i \in 1..8 : a[i] = b[i]

\* C15: hashing depends only on the first 8 bytes while equality compares
\* all 32: identical digests are equal and hash identically; digests that
\* agree on the first 8 bytes hash identically, and if they differ in a
\* later byte they compare unequal.
C15_HashTruncatedEqualityFull ==
    {"eq", "hash"} \subseteq called =>
        /\ rets.eq12 <=> args.d1 = args.d2
        /\ args.d1 = args.d2 => rets.h1 = rets.h2
        /\ AgreeOnFirst8(args.d1, args.d2) => rets.h1 = rets.h2
        /\ (/\ AgreeOnFirst8(args.d1, args.d2)
            /\ \E i \in 9..DIGEST_LENGTH : args.d1[i] # args.d2[i])
               => rets.h1 = rets.h2 /\ ~rets.eq12

\* two digests with the same first 8 bytes and a different 9th byte were
\* hashed and compared: same hash, unequal
C15_Witness ==
    /\ {"eq", "hash"} \subseteq called
    /\ AgreeOnFirst8(args.d1, args.d2)
    /\ args.d1[8] = 1
    /\ args.d1[9] # args.d2[9]
    /\ rets.h1 = rets.h2
    /\ rets.eq12 = FALSE

(***************************************************************************)
(* Encoding a value of a wire type as JSON and decoding the text again.    *)
(***************************************************************************)
WireTransactions == BlockTransactions

WireSignedBlocks ==
    [inner : BlockBodies, signature : {<<>>, <<9>>, <<U8_MAX, U8_MIN, 7>>}]

\* blocks with no, one and two transactions, unsigned and signed
WireVerifiedBlocks ==
    [block : {SignedBlockNew(<<>>),
              SignedBlockNew(<<TransactionNew(<<1, 2, 3>>)>>),
              [inner |-> <<TransactionNew(<<2>>), TransactionNew(<<>>)>>,
               signature |-> <<5, 6>>]},
     digest : {TestDigest(1), LastByteDigest, BlockDigestMAX}]

\* score lists of up to two entries: in descending order, in ascending order,
\* and with equal scores
ScoreLists == SeqsUpTo({<<0, 100>>, <<1, 90>>, <<2, 100>>}, 2)

WireSubDags ==
    [leader : {BlockRefDefault, [leader_address |-> "0xaa", digest |-> LastByteDigest, round |-> 11]},
     blocks : SeqsUpTo({create_test_verified_block(<<TransactionNew(<<1, 2, 3>>)>>),
                        [block |-> [inner |-> <<TransactionNew(<<2>>), TransactionNew(<<>>)>>,
                                    signature |-> <<5, 6>>],
                         digest |-> LastByteDigest]}, 2),
     timestamp_ms : {0, 1234567890},
     commit_ref : {create_test_commit_ref(1), [digest |-> LastByteDigest, round |-> 21]},
     reputation_scores_desc : ScoreLists]

WireValues ==
    [ty : {"BlockDigest"}, value : EndDigests]
    \cup [ty : {"BlockRef"}, value : BlockRefs]
    \cup [ty : {"CommitRef"}, value : CommitRefs]
    \cup [ty : {"Transaction"}, value : WireTransactions]
    \cup [ty : {"SignedBlock"}, value : WireSignedBlocks]
    \cup [ty : {"VerifiedBlock"}, value : WireVerifiedBlocks]
    \cup [ty : {"CommittedSubDag"}, value : WireSubDags]

InitWire ==
    /\ SubDagIdle
    /\ called = {}
    /\ args \in WireValues
    /\ rets = [serialized |-> <<>>, deserialized |-> Err]

\* let serialized = serde_json::to_string(&value).unwrap();
CallToString ==
    /\ "to_string" \notin called
    /\ rets' = [rets EXCEPT !.serialized = to_string(args.ty, args.value)]
    /\ called' = called \cup {"to_string"}
    /\ UNCHANGED <<subdag, flattened, length, args>>

\* let deserialized = serde_json::from_str(&serialized);
CallFromStr ==
    /\ "to_string" \in called
    /\ "from_str" \notin called
    /\ rets' = [rets EXCEPT !.deserialized = from_str(args.ty, rets.serialized)]
    /\ called' = called \cup {"from_str"}
    /\ UNCHANGED <<subdag, flattened, length, args>>

NextWire ==
    \/ CallToString
    \/ CallFromStr

SpecWire == InitWire /\ [][NextWire]_vars

\* C12: encoding and then decoding a value of BlockDigest, BlockRef,
\* CommitRef, Transaction, SignedBlock, VerifiedBlock or CommittedSubDag
\* succeeds and yields a value equal to the original in every field: the
\* same payload bytes, the same order of blocks and of transactions, the
\* same signature, the same order of reputation_scores_desc.
C12_RoundTripIsIdentity ==
    "from_str" \in called =>
        /\ rets.deserialized.ok
        /\ rets.deserialized.val = args.value

\* test_committed_subdag_serialization with a signed second block: a sub-DAG
\* of two blocks with the scores [(0,100),(1,90)] was encoded and decoded
C12_Witness ==
    /\ "from_str" \in called
    /\ args.ty = "CommittedSubDag"
    /\ Len(args.value.blocks) = 2
    /\ args.value.blocks[2].block.signature = <<5, 6>>
    /\ args.value.timestamp_ms = 1234567890
    /\ rets.deserialized.ok
    /\ rets.deserialized.val.blocks[2].block.signature = <<5, 6>>
    /\ rets.deserialized.val.reputation_scores_desc = <<<<0, 100>>, <<1, 90>>>>

\* scores in descending order: each entry's score is at least the next one's
SortedDesc(scores) ==
    \A k \in 1..(Len(scores) - 1) : scores[k][2] >= scores[k + 1][2]

\* C13: in every CommittedSubDag value, here those that from_str returns,
\* reputation_scores_desc is sorted by score in descending order.
C13_ScoresSortedDescending ==
    ("from_str" \in called /\ args.ty = "CommittedSubDag" /\ rets.deserialized.ok)
        => SortedDesc(rets.deserialized.val.reputation_scores_desc)

====
